---- MODULE Spec2Model ----
(***************************************************************************)
(* The drag-and-drop board of GridRealm (src/views/GridRealm.tsx) together *)
(* with the asset store of App (src/App.tsx).                              *)
(*                                                                         *)
(* World coordinates are integers: with CELL_SIZE = 4 every cell centre    *)
(* (g - GRID_SIZE/2 + 0.5) * CELL_SIZE is an even integer, and             *)
(* floor(w / CELL_SIZE + GRID_SIZE/2) of a real w equals the same          *)
(* expression at floor(w), so integer pointer coordinates lose nothing.    *)
(* Asset values are powers of ten, value = 10^log10value, which makes the  *)
(* half height of a building an integer as well.                           *)
(*                                                                         *)
(* React applies a queued setAssets update, re-renders and re-runs the     *)
(* effect after the handler that queued it has returned and before the     *)
(* next pointer event is delivered: the queue is `pending`, the flush is   *)
(* the action Render, and no pointer event is taken while an update waits. *)
(* Write-only presentation state (tooltipPos, the cursor style,            *)
(* emissiveIntensity, the lights) is left out.                             *)
(***************************************************************************)
EXTENDS Integers, Sequences, FiniteSets, TLC

VARIABLES
    assets,           \* App.tsx 14: the assets state = the assets prop = assetsRef.current
    pending,          \* App.tsx 18: onAssetMove calls whose setAssets update is not applied yet
    meshes,           \* GridRealm.tsx 130-191: buildingsGroup.children, in list order
    isDragging,       \* GridRealm.tsx 208
    draggedObject,    \* GridRealm.tsx 209: index into meshes, NoMesh for null
    hoveredMesh,      \* GridRealm.tsx 210: index into meshes, NoMesh for null
    controls,         \* GridRealm.tsx 65-72: [enabled, autoRotate] of the OrbitControls
    highlightMesh,    \* GridRealm.tsx 193-200: [visible, x, z, color] of the ghost square
    planeIntersectPoint, \* GridRealm.tsx 206: <<x, z>> of the Vector3 the drag ray writes
    isDraggingState,  \* GridRealm.tsx 31: React state
    hoveredAsset,     \* GridRealm.tsx 29: React state, <<>> for null, <<id>> for an asset
    lastEv,           \* history: the handler that ran last
    probe,            \* input and result of the last Grid Mapper evaluation (SpecMapper)
    effectDue         \* GridRealm.tsx 37-433: a render has committed a new assets prop and
                      \* the effect has not run again yet (SpecExternal)

vars == <<assets, pending, meshes, isDragging, draggedObject, hoveredMesh, controls,
          highlightMesh, planeIntersectPoint, isDraggingState, hoveredAsset, lastEv, probe,
          effectDue>>

----------------------------------------------------------------------------
(* Program constants *)

GRID_SIZE == 10
CELL_SIZE == 4

(* Bounds of the model *)

\* the pointer leaves the board on the right by MaxOut - 1 steps of half a cell
MaxOut == 1
\* a mesh is picked while it is less than MaxLift above its resting height
MaxLift == 2
\* the scene build is probed on list indexes up to MaxIndexOver past the last cell
MaxIndexOver == 2
\* the Grid Mapper is probed on world coordinates within MaxProbe of the board's edge
MaxProbe == 6

NoMesh == 0
NoPos == <<>>
NoHit == <<>>

Max(a, b) == IF a > b THEN a ELSE b
Min(a, b) == IF a < b THEN a ELSE b

----------------------------------------------------------------------------
(* Grid Mapper: the conversions as the handlers compute them *)

\* the half cell left out: the corner of the cell
CellCentre_Corner(g) == ((2 * g - GRID_SIZE) * CELL_SIZE) \div 2

\* x = (gx - GRID_SIZE / 2 + 0.5) * CELL_SIZE, gx 0-based
CellCentre(g) == ((2 * g - GRID_SIZE + 1) * CELL_SIZE) \div 2

\* Math.round in place of Math.floor
RawCell_Round(w) == (2 * w + GRID_SIZE * CELL_SIZE + CELL_SIZE) \div (2 * CELL_SIZE)

\* Math.floor((w / CELL_SIZE) + GRID_SIZE/2)
RawCell(w) == (2 * w + GRID_SIZE * CELL_SIZE) \div (2 * CELL_SIZE)

\* the upper clamp left out: Math.max(0, rawGx)
MoveSnap_NoUpperClamp(w) == Max(0, RawCell(w))

\* onPointerMove: Math.max(0, Math.min(GRID_SIZE - 1, rawGx)), 0-based
MoveSnap(w) == Max(0, Min(GRID_SIZE - 1, RawCell(w)))

\* the 0-based cell passed on as it is
UpCell_ZeroBased(w) == RawCell(w)

\* onPointerUp: Math.floor((currentX / CELL_SIZE) + GRID_SIZE/2) + 1, 1-based, no clamp
UpCell(w) == RawCell(w) + 1

----------------------------------------------------------------------------
(* Collision check *)

\* the dragged asset itself is not excluded
RECURSIVE isOccupiedMove_NoExclude(_, _, _, _)
isOccupiedMove_NoExclude(list, assetId, targetX, targetY) ==
    IF list = <<>> THEN FALSE
    ELSE LET a == Head(list) IN
         IF /\ a.gridPosition # NoPos
            /\ a.gridPosition[1] = targetX
            /\ a.gridPosition[2] = targetY
         THEN TRUE
         ELSE isOccupiedMove_NoExclude(Tail(list), assetId, targetX, targetY)

\* assetsRef.current.some(...) of onPointerMove
RECURSIVE isOccupiedMove(_, _, _, _)
isOccupiedMove(list, assetId, targetX, targetY) ==
    IF list = <<>> THEN FALSE
    ELSE LET a == Head(list) IN
         IF /\ a.id # assetId
            /\ a.gridPosition # NoPos
            /\ a.gridPosition[1] = targetX
            /\ a.gridPosition[2] = targetY
         THEN TRUE
         ELSE isOccupiedMove(Tail(list), assetId, targetX, targetY)

\* a.id === assetId in place of a.id !== assetId
RECURSIVE isOccupiedUp_SelfOnly(_, _, _, _)
isOccupiedUp_SelfOnly(list, assetId, gx, gy) ==
    IF list = <<>> THEN FALSE
    ELSE LET a == Head(list) IN
         IF /\ a.id = assetId
            /\ a.gridPosition # NoPos
            /\ a.gridPosition[1] = gx
            /\ a.gridPosition[2] = gy
         THEN TRUE
         ELSE isOccupiedUp_SelfOnly(Tail(list), assetId, gx, gy)

\* the positions compared as objects, which never are the same object
isOccupiedUp_Never(list, assetId, gx, gy) == FALSE

\* the comparison of gridPosition.x left out
isOccupiedUp_RowOnly(list, assetId, gx, gy) ==
    \E i \in 1..Len(list) :
        /\ list[i].id # assetId
        /\ list[i].gridPosition # NoPos
        /\ list[i].gridPosition[2] = gy

\* an asset without gridPosition counts as standing on the cell of its list index
isOccupiedUp_DefaultCells(list, assetId, gx, gy) ==
    \E i \in 1..Len(list) :
        /\ list[i].id # assetId
        /\ IF list[i].gridPosition # NoPos
           THEN list[i].gridPosition = <<gx, gy>>
           ELSE <<((i - 1) % GRID_SIZE) + 1, ((i - 1) \div GRID_SIZE) + 1>> = <<gx, gy>>

\* assetsRef.current.some(...) of onPointerUp
RECURSIVE isOccupiedUp(_, _, _, _)
isOccupiedUp(list, assetId, gx, gy) ==
    IF list = <<>> THEN FALSE
    ELSE LET a == Head(list) IN
         IF /\ a.id # assetId
            /\ a.gridPosition # NoPos
            /\ a.gridPosition[1] = gx
            /\ a.gridPosition[2] = gy
         THEN TRUE
         ELSE isOccupiedUp(Tail(list), assetId, gx, gy)

----------------------------------------------------------------------------
(* The store *)

\* the id test left out: every asset gets the new position
handleAssetMove_All(prevAssets, id, newPos) ==
    [i \in 1..Len(prevAssets) |-> [prevAssets[i] EXCEPT !.gridPosition = newPos]]

\* the id test inverted: every asset but the named one gets the new position
handleAssetMove_Others(prevAssets, id, newPos) ==
    [i \in 1..Len(prevAssets) |->
        IF prevAssets[i].id # id
        THEN [prevAssets[i] EXCEPT !.gridPosition = newPos]
        ELSE prevAssets[i]]

handleAssetMove(prevAssets, id, newPos) ==
    [i \in 1..Len(prevAssets) |->
        IF prevAssets[i].id = id
        THEN [prevAssets[i] EXCEPT !.gridPosition = newPos]
        ELSE prevAssets[i]]

RECURSIVE ApplyUpdates(_, _)
ApplyUpdates(list, queue) ==
    IF queue = <<>> THEN list
    ELSE ApplyUpdates(handleAssetMove(list, Head(queue).id, Head(queue).newPos), Tail(queue))

----------------------------------------------------------------------------
(* The scene the effect builds *)

\* twice Math.max(1.5, Math.min(12, Math.log10(asset.value) * 2 - 6))
HeightTimes2(log10value) == Max(3, Min(24, log10value * 4 - 12))

\* height / 2, an integer for the values of the model
HalfHeight(log10value) == HeightTimes2(log10value) \div 4

\* the clamp of gx and gz left out
BuildMesh_NoClamp(asset, index) ==
    LET gx == IF asset.gridPosition # NoPos THEN asset.gridPosition[1] - 1
              ELSE index % GRID_SIZE
        gz == IF asset.gridPosition # NoPos THEN asset.gridPosition[2] - 1
              ELSE index \div GRID_SIZE
        y == HalfHeight(asset.log10value)
    IN [assetId |-> asset.id,
        gridX |-> gx + 1,
        gridY |-> gz + 1,
        position |-> <<CellCentre(gx), y, CellCentre(gz)>>,
        originalPos |-> <<CellCentre(gx), y, CellCentre(gz)>>,
        emissive |-> "000000"]

\* the default placement fills columns first
BuildMesh_ColumnMajor(asset, index) ==
    LET gx == IF asset.gridPosition # NoPos THEN asset.gridPosition[1] - 1
              ELSE Min(GRID_SIZE - 1, index \div GRID_SIZE)
        gz == IF asset.gridPosition # NoPos THEN asset.gridPosition[2] - 1
              ELSE index % GRID_SIZE
        y == HalfHeight(asset.log10value)
    IN [assetId |-> asset.id,
        gridX |-> gx + 1,
        gridY |-> gz + 1,
        position |-> <<CellCentre(gx), y, CellCentre(gz)>>,
        originalPos |-> <<CellCentre(gx), y, CellCentre(gz)>>,
        emissive |-> "000000"]

BuildMesh(asset, index) ==
    LET g0x == IF asset.gridPosition # NoPos THEN asset.gridPosition[1] - 1
               ELSE index % GRID_SIZE
        g0z == IF asset.gridPosition # NoPos THEN asset.gridPosition[2] - 1
               ELSE index \div GRID_SIZE
        gx == IF g0x < 0 THEN 0 ELSE IF g0x >= GRID_SIZE THEN GRID_SIZE - 1 ELSE g0x
        gz == IF g0z < 0 THEN 0 ELSE IF g0z >= GRID_SIZE THEN GRID_SIZE - 1 ELSE g0z
        x == CellCentre(gx)
        z == CellCentre(gz)
        y == HalfHeight(asset.log10value)
    IN [assetId |-> asset.id,
        gridX |-> gx + 1,
        gridY |-> gz + 1,
        position |-> <<x, y, z>>,
        originalPos |-> <<x, y, z>>,
        emissive |-> "000000"]

BuildScene(list) == [i \in 1..Len(list) |-> BuildMesh(list[i], i - 1)]

NewControls == [enabled |-> TRUE, autoRotate |-> TRUE]
\* the ghost square left visible when it is created
NewHighlight_Visible == [visible |-> TRUE, x |-> 0, z |-> 0, color |-> "06b6d4"]

\* highlightMesh.visible = false when the effect creates it
NewHighlight == [visible |-> FALSE, x |-> 0, z |-> 0, color |-> "06b6d4"]
NoProbe == [op |-> "none", x |-> 0, z |-> 0, col |-> 0, row |-> 0]

----------------------------------------------------------------------------
(* Inputs *)

Ids == <<"a1", "a2">>
Log10Values == <<4, 6>>

\* the first asset is placed, on the board or beyond its right edge; the second is
\* placed next to it or has no gridPosition
InitPositions == <<{<<1, 1>>, <<GRID_SIZE + 1, 1>>}, {NoPos, <<2, 1>>}>>

NoDoubleBooking(list) ==
    \A i, j \in 1..Len(list) :
        (i # j /\ list[i].gridPosition # NoPos /\ list[j].gridPosition # NoPos)
            => list[i].gridPosition # list[j].gridPosition

InitLists ==
    {list \in [1..Len(Ids) -> [id : {"a1", "a2"}, log10value : {4, 6},
                               gridPosition : InitPositions[1] \cup InitPositions[2]]] :
        /\ \A i \in 1..Len(Ids) : /\ list[i].id = Ids[i]
                                  /\ list[i].log10value = Log10Values[i]
                                  /\ list[i].gridPosition \in InitPositions[i]
        /\ NoDoubleBooking(list)}

Half == (GRID_SIZE * CELL_SIZE) \div 2

\* where the pointer ray meets the drag plane: the centres of cells (2,1) and (5,5),
\* and a point of row 1 beyond the right edge of the board
PlanePoints ==
    {<<CellCentre(1), CellCentre(0)>>, <<CellCentre(4), CellCentre(4)>>}
    \cup {<<Half + 2 * (MaxOut - 1), CellCentre(0)>>}

----------------------------------------------------------------------------
(* Handlers *)

Init ==
    /\ assets \in InitLists
    /\ pending = <<>>
    /\ meshes = BuildScene(assets)
    /\ isDragging = FALSE
    /\ draggedObject = NoMesh
    /\ hoveredMesh = NoMesh
    /\ controls = NewControls
    /\ highlightMesh = NewHighlight
    /\ planeIntersectPoint = <<0, 0>>
    /\ isDraggingState = FALSE
    /\ hoveredAsset = <<>>
    /\ lastEv = "init"
    /\ probe = NoProbe
    /\ effectDue = FALSE

\* the snap back left out
RevertPosition_Stay(obj) == obj.position

\* draggedObject.position.copy(draggedObject.userData.originalPos)
RevertPosition(obj) == obj.originalPos

\* controls.enabled = true left out
EnableControls_Forgotten(c) == c

\* controls.enabled = true
EnableControls(c) == [c EXCEPT !.enabled = TRUE]

\* the test of intersects.length left out: a drag starts on whatever the ray returns
onPointerDown_NoHitTest(pick) ==
    /\ pending = <<>>
    /\ pick # NoMesh => meshes[pick].position[2] < meshes[pick].originalPos[2] + MaxLift
    /\ lastEv' = "down"
    /\ isDragging' = TRUE
    /\ draggedObject' = pick
    /\ controls' = [controls EXCEPT !.enabled = FALSE]
    /\ meshes' = IF pick # NoMesh
                 THEN [meshes EXCEPT ![pick].emissive = "ffffff", ![pick].position[2] = @ + 1]
                 ELSE meshes
    /\ isDraggingState' = TRUE
    /\ highlightMesh' = [highlightMesh EXCEPT !.visible = TRUE]
    /\ UNCHANGED <<assets, pending, hoveredMesh, planeIntersectPoint, hoveredAsset, probe,
                   effectDue>>

\* pick: intersects[0].object of the non-recursive raycast, NoMesh when nothing is hit
onPointerDown(pick) ==
    /\ pending = <<>>
    /\ pick # NoMesh => meshes[pick].position[2] < meshes[pick].originalPos[2] + MaxLift
    /\ lastEv' = "down"
    /\ IF pick # NoMesh
       THEN /\ isDragging' = TRUE
            /\ draggedObject' = pick
            /\ controls' = [controls EXCEPT !.enabled = FALSE]
            /\ meshes' = [meshes EXCEPT ![pick].emissive = "ffffff",
                                        ![pick].position[2] = @ + 1]
            /\ isDraggingState' = TRUE
            /\ highlightMesh' = [highlightMesh EXCEPT !.visible = TRUE]
       ELSE UNCHANGED <<isDragging, draggedObject, controls, meshes, isDraggingState,
                        highlightMesh>>
    /\ UNCHANGED <<assets, pending, hoveredMesh, planeIntersectPoint, hoveredAsset, probe, effectDue>>

\* the id test left out: find returns the first asset of the list
FindAsset_First(list, assetId) == IF list = <<>> THEN <<>> ELSE <<Head(list).id>>

\* assetsRef.current.find(a => a.id === assetId) || null, the asset named by its id
RECURSIVE FindAsset(_, _)
FindAsset(list, assetId) ==
    IF list = <<>> THEN <<>>
    ELSE IF Head(list).id = assetId THEN <<Head(list).id>>
    ELSE FindAsset(Tail(list), assetId)

\* the snapped cell is committed on every pointer-move of a drag
onPointerMove_LiveCommit(hit, pick) ==
    /\ pending = <<>>
    /\ lastEv' = "move"
    /\ isDragging /\ draggedObject # NoMesh
    /\ LET pt == IF hit = NoHit THEN planeIntersectPoint ELSE hit
           gx == MoveSnap(pt[1])
           gz == MoveSnap(pt[2])
       IN /\ planeIntersectPoint' = pt
          /\ meshes' = [meshes EXCEPT ![draggedObject].position =
                           <<CellCentre(gx), meshes[draggedObject].originalPos[2] + 1,
                             CellCentre(gz)>>]
          /\ highlightMesh' = [highlightMesh EXCEPT !.x = CellCentre(gx),
                                                    !.z = CellCentre(gz)]
          /\ pending' = <<[id |-> meshes[draggedObject].assetId,
                           newPos |-> <<gx + 1, gz + 1>>]>>
    /\ UNCHANGED <<assets, hoveredMesh, controls, hoveredAsset, isDragging, draggedObject,
                   isDraggingState, probe, effectDue>>

\* the return after the drag branch left out: the hover logic runs during a drag
onPointerMove_HoverInDrag(hit, pick) ==
    /\ pending = <<>>
    /\ lastEv' = "move"
    /\ isDragging /\ draggedObject # NoMesh
    /\ LET pt == IF hit = NoHit THEN planeIntersectPoint ELSE hit
           gx == MoveSnap(pt[1])
           gz == MoveSnap(pt[2])
       IN /\ planeIntersectPoint' = pt
          /\ meshes' = [meshes EXCEPT ![draggedObject].position =
                           <<CellCentre(gx), meshes[draggedObject].originalPos[2] + 1,
                             CellCentre(gz)>>]
          /\ highlightMesh' = [highlightMesh EXCEPT !.x = CellCentre(gx),
                                                    !.z = CellCentre(gz)]
    /\ controls' = [controls EXCEPT !.autoRotate = (pick = NoMesh)]
    /\ hoveredMesh' = pick
    /\ hoveredAsset' = IF pick = NoMesh THEN <<>> ELSE <<meshes[pick].assetId>>
    /\ UNCHANGED <<assets, pending, isDragging, draggedObject, isDraggingState, probe,
                   effectDue>>

\* hit: where the ray meets the drag plane, NoHit when intersectPlane returns null;
\* pick: the building of intersects[0] of the recursive raycast, NoMesh when nothing is hit
onPointerMove(hit, pick) ==
    /\ pending = <<>>
    /\ lastEv' = "move"
    /\ IF isDragging /\ draggedObject # NoMesh
       THEN LET pt == IF hit = NoHit THEN planeIntersectPoint ELSE hit
                gx == MoveSnap(pt[1])
                gz == MoveSnap(pt[2])
                snapX == CellCentre(gx)
                snapZ == CellCentre(gz)
                targetX == gx + 1
                targetY == gz + 1
                occ == isOccupiedMove(assets, meshes[draggedObject].assetId,
                                       targetX, targetY)
            IN /\ planeIntersectPoint' = pt
               /\ meshes' = [meshes EXCEPT ![draggedObject].position =
                                <<snapX, meshes[draggedObject].originalPos[2] + 1, snapZ>>]
               /\ highlightMesh' = [highlightMesh EXCEPT
                                        !.x = snapX, !.z = snapZ,
                                        !.color = IF occ THEN "ef4444" ELSE "06b6d4"]
               /\ UNCHANGED <<hoveredMesh, controls, hoveredAsset>>
       ELSE /\ IF pick # NoMesh
               THEN /\ controls' = [controls EXCEPT !.autoRotate = FALSE]
                    /\ IF hoveredMesh # pick
                       THEN /\ meshes' =
                                 [i \in 1..Len(meshes) |->
                                    IF i = pick
                                    THEN IF pick # draggedObject
                                         THEN [meshes[i] EXCEPT !.emissive = "222222"]
                                         ELSE meshes[i]
                                    ELSE IF i = hoveredMesh /\ hoveredMesh # draggedObject
                                         THEN [meshes[i] EXCEPT !.emissive = "000000"]
                                         ELSE meshes[i]]
                            /\ hoveredMesh' = pick
                            /\ hoveredAsset' = FindAsset(assets, meshes[pick].assetId)
                       ELSE UNCHANGED <<meshes, hoveredMesh, hoveredAsset>>
               ELSE /\ controls' = [controls EXCEPT !.autoRotate = TRUE]
                    /\ IF hoveredMesh # NoMesh
                       THEN /\ meshes' = IF hoveredMesh # draggedObject
                                         THEN [meshes EXCEPT ![hoveredMesh].emissive = "000000"]
                                         ELSE meshes
                            /\ hoveredMesh' = NoMesh
                            /\ hoveredAsset' = <<>>
                       ELSE UNCHANGED <<meshes, hoveredMesh, hoveredAsset>>
            /\ UNCHANGED <<planeIntersectPoint, highlightMesh>>
    /\ UNCHANGED <<assets, pending, isDragging, draggedObject, isDraggingState, probe, effectDue>>

onPointerUp ==
    /\ pending = <<>>
    /\ lastEv' = "up"
    /\ IF isDragging /\ draggedObject # NoMesh
       THEN LET obj == meshes[draggedObject]
                currentX == obj.position[1]
                currentZ == obj.position[3]
                gx == UpCell(currentX)
                gy == UpCell(currentZ)
                occ == isOccupiedUp(assets, obj.assetId, gx, gy)
            IN /\ IF occ
                  THEN /\ meshes' = [meshes EXCEPT ![draggedObject].position = RevertPosition(obj),
                                                   ![draggedObject].emissive = "222222"]
                       /\ UNCHANGED pending
                  ELSE /\ pending' = Append(pending, [id |-> obj.assetId, newPos |-> <<gx, gy>>])
                       /\ meshes' = [meshes EXCEPT
                                        ![draggedObject].originalPos =
                                            <<currentX, obj.originalPos[2], currentZ>>,
                                        ![draggedObject].emissive = "222222"]
               /\ draggedObject' = NoMesh
               /\ isDragging' = FALSE
               /\ controls' = EnableControls(controls)
               /\ highlightMesh' = [highlightMesh EXCEPT !.visible = FALSE]
               /\ isDraggingState' = FALSE
       ELSE UNCHANGED <<pending, meshes, draggedObject, isDragging, controls, highlightMesh,
                        isDraggingState>>
    /\ UNCHANGED <<assets, hoveredMesh, planeIntersectPoint, hoveredAsset, probe, effectDue>>

\* React applies the queued updates, renders App and GridRealm with the new list, runs
\* the effect's cleanup and runs the effect again
Render ==
    /\ pending # <<>>
    /\ lastEv' = "render"
    /\ assets' = ApplyUpdates(assets, pending)
    /\ pending' = <<>>
    /\ meshes' = BuildScene(assets')
    /\ isDragging' = FALSE
    /\ draggedObject' = NoMesh
    /\ hoveredMesh' = NoMesh
    /\ controls' = NewControls
    /\ highlightMesh' = NewHighlight
    /\ planeIntersectPoint' = <<0, 0>>
    /\ effectDue' = FALSE
    /\ UNCHANGED <<isDraggingState, hoveredAsset, probe>>

PointerDown == \E pick \in 0..Len(meshes) : onPointerDown(pick)
PointerMove == \E hit \in PlanePoints \cup {NoHit}, pick \in 0..Len(meshes) :
                   onPointerMove(hit, pick)
PointerUp == onPointerUp

Next == PointerDown \/ PointerMove \/ PointerUp \/ Render

Spec == Init /\ [][Next]_vars

----------------------------------------------------------------------------
(* GridRealm under a parent that replaces the assets prop from outside the  *)
(* pointer handlers (a refresh of the store). The render assigns            *)
(* assetsRef.current at once; the effect, whose dependencies are            *)
(* [assets, onAssetMove], is passive and runs again later, so the handlers  *)
(* of the previous run stay bound in between and read the new list through  *)
(* assetsRef.                                                               *)

\* the lists a refresh delivers: the same entities in a new array, or, once, the list
\* without one of its entities
ReplaceLists(list) ==
    {list} \cup IF Len(list) = Len(Ids)
                THEN {SelectSeq(list, LAMBDA a : a.id # list[i].id) : i \in 1..Len(list)}
                ELSE {}

\* GridRealm renders with the new prop: assetsRef.current = assets
ExternalReplace ==
    /\ pending = <<>>
    /\ ~effectDue
    /\ lastEv' = "replace"
    /\ assets' \in ReplaceLists(assets)
    /\ effectDue' = TRUE
    /\ UNCHANGED <<pending, meshes, isDragging, draggedObject, hoveredMesh, controls,
                   highlightMesh, planeIntersectPoint, isDraggingState, hoveredAsset, probe>>

\* the effect's cleanup disposes of the scene and removes the listeners, the effect
\* builds the scene of the new list with fresh closure variables
RunEffect ==
    /\ pending = <<>>
    /\ effectDue
    /\ lastEv' = "effect"
    /\ meshes' = BuildScene(assets)
    /\ isDragging' = FALSE
    /\ draggedObject' = NoMesh
    /\ hoveredMesh' = NoMesh
    /\ controls' = NewControls
    /\ highlightMesh' = NewHighlight
    /\ planeIntersectPoint' = <<0, 0>>
    /\ effectDue' = FALSE
    /\ UNCHANGED <<assets, pending, isDraggingState, hoveredAsset, probe>>

NextExternal == Next \/ ExternalReplace \/ RunEffect

SpecExternal == Init /\ [][NextExternal]_vars

----------------------------------------------------------------------------
(* The Grid Mapper on its own: the three conversions applied to inputs of   *)
(* the board and of a margin of MaxProbe world units around it.            *)

ReferenceList ==
    [i \in 1..Len(Ids) |->
        [id |-> Ids[i], log10value |-> Log10Values[i], gridPosition |-> <<i, 1>>]]

ProbeCoords == (-Half - MaxProbe)..(Half + MaxProbe)

InitMapper ==
    /\ assets = ReferenceList
    /\ pending = <<>>
    /\ meshes = BuildScene(assets)
    /\ isDragging = FALSE
    /\ draggedObject = NoMesh
    /\ hoveredMesh = NoMesh
    /\ controls = NewControls
    /\ highlightMesh = NewHighlight
    /\ planeIntersectPoint = <<0, 0>>
    /\ isDraggingState = FALSE
    /\ hoveredAsset = <<>>
    /\ lastEv = "init"
    /\ probe = NoProbe
    /\ effectDue = FALSE

Scene == <<assets, pending, meshes, isDragging, draggedObject, hoveredMesh, controls,
           highlightMesh, planeIntersectPoint, isDraggingState, hoveredAsset, lastEv,
           effectDue>>

\* the centre of a cell, as the effect and onPointerMove compute it
ProbeCellToWorld ==
    /\ probe = NoProbe
    /\ \E col \in 1..GRID_SIZE, row \in 1..GRID_SIZE :
           probe' = [op |-> "cellToWorld", col |-> col, row |-> row,
                     x |-> CellCentre(col - 1), z |-> CellCentre(row - 1)]
    /\ UNCHANGED Scene

\* the cell of a world point, as onPointerMove computes targetX and targetY
ProbeMove ==
    /\ probe = NoProbe
    /\ \E x \in ProbeCoords, z \in ProbeCoords :
           probe' = [op |-> "move", x |-> x, z |-> z,
                     col |-> MoveSnap(x) + 1, row |-> MoveSnap(z) + 1]
    /\ UNCHANGED Scene

\* the cell of a world point, as onPointerUp computes gx and gy
ProbeUp ==
    /\ probe = NoProbe
    /\ \E x \in ProbeCoords, z \in ProbeCoords :
           probe' = [op |-> "up", x |-> x, z |-> z, col |-> UpCell(x), row |-> UpCell(z)]
    /\ UNCHANGED Scene

ProbeIndexes == 0..(GRID_SIZE * GRID_SIZE - 1 + MaxIndexOver)

\* the building the effect makes of an asset without gridPosition at a list index
ProbeBuild ==
    /\ probe = NoProbe
    /\ \E index \in ProbeIndexes, k \in 1..Len(Ids) :
           LET building == BuildMesh([id |-> Ids[k], log10value |-> Log10Values[k],
                                      gridPosition |-> NoPos], index)
           IN probe' = [op |-> "build", index |-> index, id |-> Ids[k],
                        x |-> building.position[1], z |-> building.position[3],
                        col |-> building.gridX, row |-> building.gridY]
    /\ UNCHANGED Scene

\* the result is consumed; the next evaluation starts afresh
ProbeReturn ==
    /\ probe # NoProbe
    /\ probe' = NoProbe
    /\ UNCHANGED Scene

NextMapper == ProbeCellToWorld \/ ProbeMove \/ ProbeUp \/ ProbeBuild \/ ProbeReturn

SpecMapper == InitMapper /\ [][NextMapper]_vars

----------------------------------------------------------------------------
(* The terms of the properties *)

DragActive == isDragging /\ draggedObject # NoMesh

Dragged == meshes[draggedObject]

\* worldToCell: divide by the cell size, offset by half the grid extent, floor, clamp
WorldToCell(w) ==
    Max(1, Min(GRID_SIZE, ((2 * w + GRID_SIZE * CELL_SIZE) \div (2 * CELL_SIZE)) + 1))

\* the cell under the dragged entity
TargetCell == <<WorldToCell(Dragged.position[1]), WorldToCell(Dragged.position[3])>>

\* some entity other than id has an explicit placement equal to cell
OccupiedByOther(cell, id) ==
    \E i \in 1..Len(assets) : assets[i].id # id /\ assets[i].gridPosition = cell

\* the dragged entity stands on the cell of its revert anchor
AtOrigin ==
    /\ Dragged.position[1] = Dragged.originalPos[1]
    /\ Dragged.position[3] = Dragged.originalPos[3]

OnBoard(cell) == cell # NoPos /\ cell[1] \in 1..GRID_SIZE /\ cell[2] \in 1..GRID_SIZE

----------------------------------------------------------------------------
\* C1: No-double-booking. From a list in which no two entities with an explicit
\* gridPosition share a cell, no sequence of pointer events and store updates leads to
\* a list in which two distinct entities with explicit cells share a cell.
C1_NoDoubleBooking ==
    \A i, j \in 1..Len(assets) :
        (i # j /\ assets[i].gridPosition # NoPos /\ assets[j].gridPosition # NoPos)
            => assets[i].gridPosition # assets[j].gridPosition

\* the first entity was committed to (5,5), and the second, dragged onto (5,5) and shown
\* the cell as occupied, was released there and snapped back
C1_Witness ==
    /\ lastEv = "up"
    /\ pending = <<>>
    /\ assets[1].gridPosition = <<5, 5>>
    /\ highlightMesh.x = CellCentre(4) /\ highlightMesh.z = CellCentre(4)
    /\ highlightMesh.color = "ef4444"
    /\ hoveredMesh = NoMesh
    /\ meshes[2].emissive = "222222"
    /\ meshes[2].position = meshes[2].originalPos

\* C2: Single active drag. A pointer-down received while a drag session is active leaves
\* the session as it is: the same dragged entity, the same revert anchor, the same
\* transient position, lifted height included.
C2_SingleActiveDrag ==
    [][(lastEv' = "down" /\ DragActive) =>
          /\ isDragging'
          /\ draggedObject' = draggedObject
          /\ meshes'[draggedObject].originalPos = Dragged.originalPos
          /\ meshes'[draggedObject].position = Dragged.position]_vars

\* C3: Occupied-target release. A pointer-up while dragging over a cell that holds the
\* explicit placement of a different entity puts the dragged entity back on its revert
\* anchor, invokes no onAssetMove and leaves the Placement Table unchanged.
C3_OccupiedRelease ==
    [][(lastEv' = "up" /\ DragActive /\ OccupiedByOther(TargetCell, Dragged.assetId)) =>
          /\ meshes'[draggedObject].position = Dragged.originalPos
          /\ pending' = <<>>
          /\ assets' = assets]_vars

\* E1 at (1,1), E2 at (2,1), E1 dragged onto (2,1) and released: E1 is back at (1,1)
C3_Witness ==
    /\ lastEv = "up"
    /\ pending = <<>>
    /\ assets[1].gridPosition = <<1, 1>>
    /\ assets[2].gridPosition = <<2, 1>>
    /\ planeIntersectPoint = <<CellCentre(1), CellCentre(0)>>
    /\ highlightMesh.x = CellCentre(1) /\ highlightMesh.z = CellCentre(0)
    /\ highlightMesh.color = "ef4444"
    /\ hoveredMesh = NoMesh
    /\ meshes[1].emissive = "222222"
    /\ meshes[1].position = <<CellCentre(0), HalfHeight(Log10Values[1]), CellCentre(0)>>

\* C4: Free-target release. A pointer-up while dragging over a free cell invokes
\* onAssetMove exactly once, with the dragged entity's id and the snapped cell, and once
\* the store has applied the call the Placement Table maps that entity to that cell.
C4_FreeRelease ==
    [][/\ (lastEv' = "up" /\ DragActive /\ ~OccupiedByOther(TargetCell, Dragged.assetId)) =>
             /\ pending' = <<[id |-> Dragged.assetId, newPos |-> TargetCell]>>
             /\ \A i \in 1..Len(assets) :
                    assets[i].id = Dragged.assetId =>
                        ApplyUpdates(assets, pending')[i].gridPosition = TargetCell
       /\ lastEv' = "render" =>
             /\ Len(pending) = 1
             /\ pending' = <<>>
             /\ \A i \in 1..Len(assets) :
                    assets[i].id = pending[1].id =>
                        assets'[i].gridPosition = pending[1].newPos]_vars

\* E1 dragged to the empty cell (5,5) and released, the store has applied the call
C4_Witness ==
    /\ lastEv = "render"
    /\ assets[1].gridPosition = <<5, 5>>
    /\ assets[2].gridPosition = <<2, 1>>

\* C5: Collision check. For every target cell and excluded id the occupancy test of
\* pointer-move and of pointer-up is true iff some entity with another id has an
\* explicit gridPosition equal to the cell; the drop indicator shows that result, so
\* the dragged entity's own cell is never shown occupied on its own account.
C5_CollisionCheck ==
    LET ids == {assets[i].id : i \in 1..Len(assets)} \cup {"none"}
        cells == ({assets[i].gridPosition : i \in 1..Len(assets)} \ {NoPos})
                 \cup {<<MoveSnap(p[1]) + 1, MoveSnap(p[2]) + 1>> : p \in PlanePoints}
                 \cup {<<meshes[i].gridX, meshes[i].gridY>> : i \in 1..Len(meshes)}
    IN /\ \A id \in ids, c \in cells :
             /\ isOccupiedMove(assets, id, c[1], c[2]) = OccupiedByOther(c, id)
             /\ isOccupiedUp(assets, id, c[1], c[2]) = OccupiedByOther(c, id)
       /\ (DragActive /\ lastEv = "move") =>
             (highlightMesh.color = "ef4444") =
                 OccupiedByOther(<<WorldToCell(highlightMesh.x), WorldToCell(highlightMesh.z)>>,
                                 Dragged.assetId)

\* the second entity, placed at (2,1), is dragged over its own cell, which is shown free
C5_Witness ==
    /\ lastEv = "move"
    /\ DragActive
    /\ draggedObject = 2
    /\ assets[2].gridPosition = <<2, 1>>
    /\ Dragged.position[1] = CellCentre(1) /\ Dragged.position[3] = CellCentre(0)
    /\ highlightMesh.x = CellCentre(1) /\ highlightMesh.z = CellCentre(0)
    /\ highlightMesh.color = "06b6d4"

\* C6: Round-trip. For every cell (c, r) of the grid, the world centre
\* ((c - 1 - N/2 + 0.5) * cellSize, likewise for r) maps back to (c, r), under the
\* clamped conversion of pointer-move and under the unclamped one of pointer-up.
C6_RoundTrip ==
    probe.op = "cellToWorld" =>
        /\ 2 * probe.x = (2 * probe.col - 1 - GRID_SIZE) * CELL_SIZE
        /\ 2 * probe.z = (2 * probe.row - 1 - GRID_SIZE) * CELL_SIZE
        /\ <<MoveSnap(probe.x) + 1, MoveSnap(probe.z) + 1>> = <<probe.col, probe.row>>
        /\ <<UpCell(probe.x), UpCell(probe.z)>> = <<probe.col, probe.row>>

\* the centre of the corner cell (N, 1) has been computed
C6_Witness ==
    /\ probe.op = "cellToWorld"
    /\ probe.col = GRID_SIZE
    /\ probe.row = 1
    /\ probe.x = Half - CELL_SIZE \div 2

C8_IdempotentRevertAnyEntity ==
    [][(lastEv' = "up" /\ DragActive /\ AtOrigin) =>
          ApplyUpdates(assets, pending') = assets]_vars

\* C8: Idempotent revert. For an entity whose explicit cell lies on the board, a release
\* on its origin cell leaves the Placement Table, the pending call applied, equal to what
\* it was.
C8_IdempotentRevert ==
    [][(/\ lastEv' = "up"
        /\ DragActive
        /\ AtOrigin
        /\ \E i \in 1..Len(assets) :
              assets[i].id = Dragged.assetId /\ OnBoard(assets[i].gridPosition)) =>
          ApplyUpdates(assets, pending') = assets]_vars

\* the second entity, placed at (2,1), was dragged and released on (2,1): the call
\* repeats its cell
C8_Witness ==
    /\ lastEv = "up"
    /\ assets[2].gridPosition = <<2, 1>>
    /\ planeIntersectPoint = <<CellCentre(1), CellCentre(0)>>
    /\ pending = <<[id |-> "a2", newPos |-> <<2, 1>>]>>

\* C9 as claimed: no onAssetMove on a revert, and none for a drag that ends on the
\* entity's origin cell.
C9_NoCallOnRevertOrNoOp ==
    [][(/\ lastEv' = "up"
        /\ DragActive
        /\ (OccupiedByOther(TargetCell, Dragged.assetId) \/ AtOrigin)) =>
          pending' = <<>>]_vars

\* C9: onAssetMove is never invoked on a revert. A drag that ends on the entity's origin
\* cell while no other entity is placed there, a pointer-down followed directly by a
\* pointer-up included, invokes onAssetMove once with the origin cell.
C9_NoCallOnRevert ==
    [][(lastEv' = "up" /\ DragActive) =>
          /\ OccupiedByOther(TargetCell, Dragged.assetId) =>
                 (pending' = <<>> /\ meshes'[draggedObject].position = Dragged.originalPos)
          /\ (AtOrigin /\ ~OccupiedByOther(TargetCell, Dragged.assetId)) =>
                 pending' = <<[id |-> Dragged.assetId,
                               newPos |-> <<WorldToCell(Dragged.originalPos[1]),
                                            WorldToCell(Dragged.originalPos[3])>>]>>]_vars

\* pointer-down on the first entity at (1,1) and pointer-up with no pointer-move between
\* them: onAssetMove("a1", (1,1)) is pending
C9_Witness ==
    /\ lastEv = "up"
    /\ planeIntersectPoint = <<0, 0>>
    /\ highlightMesh.x = 0 /\ highlightMesh.z = 0
    /\ assets[1].gridPosition = <<1, 1>>
    /\ pending = <<[id |-> "a1", newPos |-> <<1, 1>>]>>

\* C10: A drag is never left dangling. After a pointer-up the state is Idle, and every
\* entity a pointer-down picked up has been committed or reverted: none still carries the
\* picked highlight, none stands away from its anchor cell.
C10_NoDanglingDrag ==
    lastEv = "up" =>
        /\ ~isDragging
        /\ draggedObject = NoMesh
        /\ \A i \in 1..Len(meshes) :
              /\ meshes[i].emissive # "ffffff"
              /\ meshes[i].position[1] = meshes[i].originalPos[1]
              /\ meshes[i].position[3] = meshes[i].originalPos[3]

----------------------------------------------------------------------------
\* C11: From Idle, a pointer-move or a pointer-up leaves the state Idle and has no
\* drag effect: no onAssetMove call, the list unchanged, no entity moved and no anchor
\* changed, the drop indicator hidden, orbit controls enabled. Only the hover highlight
\* and the hovered asset may change.
C11_IdleStaysIdle ==
    [][(~DragActive /\ (PointerMove \/ PointerUp)) =>
          /\ ~isDragging' /\ draggedObject' = NoMesh
          /\ ~isDraggingState'
          /\ pending' = pending /\ pending' = <<>>
          /\ assets' = assets
          /\ Len(meshes') = Len(meshes)
          /\ \A i \in 1..Len(meshes) :
                 /\ meshes'[i].position = meshes[i].position
                 /\ meshes'[i].originalPos = meshes[i].originalPos
                 /\ meshes'[i].emissive # "ffffff" \/ meshes[i].emissive = "ffffff"
          /\ ~highlightMesh'.visible
          /\ highlightMesh' = highlightMesh
          /\ controls'.enabled]_vars

\* with no drag begun since the scene was built, the pointer moved onto the first entity,
\* which is highlighted as hovered, and the button was released
C11_Witness ==
    /\ lastEv = "up"
    /\ ~DragActive
    /\ pending = <<>>
    /\ hoveredMesh = 1
    /\ hoveredAsset = <<"a1">>
    /\ meshes = [BuildScene(assets) EXCEPT ![1].emissive = "222222"]
    /\ ~controls.autoRotate

\* C12 as claimed: a replacement of the entity list during a drag leaves the session on
\* the same entity: once the list is replaced and the scene follows it, a drag is still
\* active and its entity has the identifier it had.
C12_DragSurvivesReplace ==
    [][(DragActive /\ (ExternalReplace \/ RunEffect)) =>
          (DragActive' /\ meshes'[draggedObject'].assetId = Dragged.assetId)]_vars

\* C13 as claimed: a pointer-up whose dragged entity is no longer in the entity list ends
\* the session with no onAssetMove call and the list unchanged.
C13_StaleReferenceAborts ==
    [][(PointerUp /\ DragActive /\ FindAsset(assets, Dragged.assetId) = <<>>) =>
          (~DragActive' /\ pending' = <<>> /\ assets' = assets)]_vars

\* C14: The entity list changes only when a queued onAssetMove(id, cell) is applied, and
\* applying it changes nothing but the gridPosition of the entity named id: length,
\* order and every other entity are as before. For an id no entity has, the list is
\* returned with its contents unchanged.
C14_CommitFrame ==
    [][/\ assets' # assets => (Render /\ pending # <<>>)
       /\ Render =>
             /\ Len(assets') = Len(assets)
             /\ \E c \in {pending[1]} :
                    \A i \in 1..Len(assets) :
                        /\ assets'[i].id = assets[i].id
                        /\ assets'[i].log10value = assets[i].log10value
                        /\ assets'[i].gridPosition =
                               IF assets[i].id = c.id THEN c.newPos
                               ELSE assets[i].gridPosition
       /\ \A x, y \in {1, GRID_SIZE} :
              handleAssetMove(assets, "a0", <<x, y>>) = assets]_vars

\* the first entity's move to (5,5) was applied next to the second entity at (2,1)
C14_Witness ==
    /\ lastEv = "render"
    /\ assets[1] = [id |-> "a1", log10value |-> 4, gridPosition |-> <<5, 5>>]
    /\ assets[2] = [id |-> "a2", log10value |-> 6, gridPosition |-> <<2, 1>>]

\* C15: Hover transition. A pointer-move in Idle that resolves to an entity other than
\* the hovered one unhighlights the old entity, makes the new one the hovered entity and
\* highlights it, and the attributes shown are those of the new entity. A pointer-move
\* that resolves to the hovered entity changes nothing.
C15_HoverTransition ==
    [][\A pick \in 1..Len(meshes), hit \in PlanePoints \cup {NoHit} :
          (~DragActive /\ onPointerMove(hit, pick)) =>
              IF pick # hoveredMesh
              THEN /\ hoveredMesh' = pick
                   /\ meshes'[pick].emissive = "222222"
                   /\ hoveredMesh # NoMesh => meshes'[hoveredMesh].emissive = "000000"
                   /\ hoveredAsset' = <<meshes[pick].assetId>>
                   /\ ~isDraggingState'
                   /\ \A i \in 1..Len(meshes) :
                          (i # pick /\ i # hoveredMesh) => meshes'[i] = meshes[i]
              ELSE UNCHANGED <<assets, pending, meshes, isDragging, draggedObject,
                               hoveredMesh, controls, highlightMesh, planeIntersectPoint,
                               isDraggingState, hoveredAsset>>]_vars

\* the pointer is on the second entity, highlighted and shown in the panel, and the
\* first entity is not highlighted
C15_Witness ==
    /\ lastEv = "move"
    /\ ~DragActive
    /\ hoveredMesh = 2
    /\ meshes[2].emissive = "222222"
    /\ meshes[1].emissive = "000000"
    /\ hoveredAsset = <<"a2">>
    /\ ~isDraggingState

\* C16 as claimed: hover exit. A pointer-move in Idle that resolves to no entity
\* unhighlights the hovered entity, leaves no hovered entity and clears the
\* hovered-asset panel, after any sequence of events.
C16_HoverExit ==
    [][\A hit \in PlanePoints \cup {NoHit} :
          (~DragActive /\ onPointerMove(hit, NoMesh)) =>
              /\ hoveredMesh' = NoMesh
              /\ hoveredMesh # NoMesh => meshes'[hoveredMesh].emissive = "000000"
              /\ hoveredAsset' = <<>>]_vars

\* C17: No pointer-move, hovering or dragging, invokes onAssetMove or changes the
\* entity list. A call is queued by a pointer-up alone, and the list changes only when
\* that call is applied.
C17_MoveNeverCommits ==
    [][/\ PointerMove => (pending' = pending /\ assets' = assets)
       /\ pending' \notin {pending, <<>>} => (PointerUp /\ DragActive)
       /\ assets' # assets => (pending # <<>> /\ lastEv = "up")]_vars

\* a drag has been moved over the cell (5,5): nothing is queued and the list is one of
\* the initial lists
C17_Witness ==
    /\ lastEv = "move"
    /\ DragActive
    /\ Dragged.position[1] = CellCentre(4) /\ Dragged.position[3] = CellCentre(4)
    /\ highlightMesh.visible
    /\ pending = <<>>
    /\ assets \in InitLists

\* C18: Pick-miss. A pointer-down in Idle whose ray hits no entity changes nothing: the
\* state stays Idle, controls enabled, no entity lifted or given the picked highlight,
\* the drop indicator hidden, no onAssetMove call.
C18_PickMiss ==
    [][(~DragActive /\ onPointerDown(NoMesh)) =>
          /\ ~isDragging' /\ draggedObject' = NoMesh /\ ~isDraggingState'
          /\ controls'.enabled /\ controls' = controls
          /\ meshes' = meshes
          /\ ~highlightMesh'.visible /\ highlightMesh' = highlightMesh
          /\ pending' = <<>>
          /\ UNCHANGED <<assets, hoveredMesh, hoveredAsset, planeIntersectPoint>>]_vars

\* a pointer-down that hit nothing, on a scene in which nothing was ever picked
C18_Witness ==
    /\ lastEv = "down"
    /\ ~isDragging /\ draggedObject = NoMesh
    /\ controls.enabled
    /\ ~highlightMesh.visible
    /\ pending = <<>>
    /\ \A i \in 1..Len(meshes) :
           meshes[i].emissive # "ffffff" /\ meshes[i].position = meshes[i].originalPos

\* C19: Orbit controls follow the drag state. A pointer-down in Idle that resolves to an
\* entity starts the drag of that entity and disables the controls, a pointer-up that
\* ends a drag enables them whether it commits or reverts, and in every state the
\* controls are disabled exactly when a drag is active.
C19_ControlsFollowDrag ==
    [][/\ \A pick \in 1..Len(meshes) :
              (~DragActive /\ onPointerDown(pick)) =>
                  (DragActive' /\ draggedObject' = pick /\ ~controls'.enabled)
       /\ (DragActive /\ PointerUp) => (~DragActive' /\ controls'.enabled)
       /\ controls.enabled = ~DragActive
       /\ controls'.enabled = ~DragActive']_vars

\* a drag onto the occupied cell (2,1) was released and reverted: the controls are
\* enabled again
C19_Witness ==
    /\ lastEv = "up"
    /\ pending = <<>>
    /\ highlightMesh.color = "ef4444"
    /\ meshes[1].emissive = "222222"
    /\ meshes[1].position = meshes[1].originalPos
    /\ ~DragActive
    /\ controls.enabled

\* C20: Every onAssetMove call carries a cell (x, y) with 1 <= x <= N and 1 <= y <= N,
\* whatever the pointer did, a drop-plane point beyond the board included, and for
\* entities stored with a gridPosition outside the board.
C20_CallsOnBoard ==
    \A k \in 1..Len(pending) : OnBoard(pending[k].newPos)

\* the first entity, stored at (N+1, 1) and shown in column N, was dragged with the
\* pointer's drop-plane point beyond the right edge and released: the call carries (N, 1)
C20_Witness ==
    /\ lastEv = "up"
    /\ assets[1].gridPosition = <<GRID_SIZE + 1, 1>>
    /\ planeIntersectPoint[1] >= Half
    /\ pending = <<[id |-> "a1", newPos |-> <<GRID_SIZE, 1>>]>>

----------------------------------------------------------------------------
\* the cell the effect gives an asset without gridPosition at a list index
DefaultCell(index) ==
    LET building == BuildMesh([id |-> "a0", log10value |-> 4, gridPosition |-> NoPos], index)
    IN <<building.gridX, building.gridY>>

\* C21: Default placement. An entity without gridPosition at list index i stands on cell
\* (i mod N + 1, floor(i / N) + 1), each axis clamped to [1, N], at the centre of that
\* cell; the cell depends on i alone, and two distinct indexes below N * N give two
\* distinct cells.
C21_DefaultPlacement ==
    probe.op = "build" =>
        /\ probe.col = Max(1, Min(GRID_SIZE, (probe.index % GRID_SIZE) + 1))
        /\ probe.row = Max(1, Min(GRID_SIZE, (probe.index \div GRID_SIZE) + 1))
        /\ 2 * probe.x = (2 * probe.col - 1 - GRID_SIZE) * CELL_SIZE
        /\ 2 * probe.z = (2 * probe.row - 1 - GRID_SIZE) * CELL_SIZE
        /\ <<probe.col, probe.row>> = DefaultCell(probe.index)
        /\ probe.index < GRID_SIZE * GRID_SIZE =>
               \A j \in 0..(GRID_SIZE * GRID_SIZE - 1) :
                   j # probe.index => DefaultCell(j) # <<probe.col, probe.row>>

\* the second asset was built at index N * N, past the last cell: it stands on (1, N)
C21_Witness ==
    /\ probe.op = "build"
    /\ probe.index = GRID_SIZE * GRID_SIZE
    /\ probe.id = "a2"
    /\ probe.col = 1
    /\ probe.row = GRID_SIZE

\* the world centre of a cell of the board
CentreOfCell(c) == ((2 * c - 1 - GRID_SIZE) * CELL_SIZE) \div 2

\* C22: A pointer-move of a drag puts the dragged entity on the centre of the clamped
\* cell under the pointer's drop-plane point (the point the ray wrote, or the point it
\* had written before when it misses the plane), at the height of its revert anchor plus 1,
\* moves the drop indicator to the same centre, and colours the indicator red iff some
\* other entity of the current list has that cell as gridPosition, cyan otherwise.
C22_DragMove ==
    [][(DragActive /\ lastEv' = "move") =>
              LET pt == planeIntersectPoint'
                  cell == <<WorldToCell(pt[1]), WorldToCell(pt[2])>>
              IN /\ pt \in PlanePoints \cup {planeIntersectPoint}
                 /\ OnBoard(cell)
                 /\ meshes'[draggedObject].position =
                        <<CentreOfCell(cell[1]), Dragged.originalPos[2] + 1,
                          CentreOfCell(cell[2])>>
                 /\ meshes'[draggedObject].originalPos = Dragged.originalPos
                 /\ highlightMesh'.x = CentreOfCell(cell[1])
                 /\ highlightMesh'.z = CentreOfCell(cell[2])
                 /\ highlightMesh'.color =
                        IF OccupiedByOther(cell, Dragged.assetId) THEN "ef4444"
                        ELSE "06b6d4"]_vars

\* the first entity was picked and moved with the pointer beyond the right edge: it
\* stands on the centre of (N, 1), 1 above its anchor, and the indicator below it
C22_Witness ==
    /\ lastEv = "move"
    /\ DragActive
    /\ draggedObject = 1
    /\ planeIntersectPoint[1] >= Half
    /\ Dragged.position = <<CentreOfCell(GRID_SIZE), Dragged.originalPos[2] + 1,
                            CentreOfCell(1)>>
    /\ highlightMesh.x = CentreOfCell(GRID_SIZE) /\ highlightMesh.z = CentreOfCell(1)

\* C23: Drag suppresses hover. A pointer-move of a drag changes neither the hovered
\* entity, nor any entity's highlight, nor the hovered asset, nor the auto-rotate setting.
C23_DragSuppressesHover ==
    [][(DragActive /\ PointerMove) =>
          /\ hoveredMesh' = hoveredMesh
          /\ hoveredAsset' = hoveredAsset
          /\ controls' = controls
          /\ \A i \in 1..Len(meshes) : meshes'[i].emissive = meshes[i].emissive]_vars

\* the first entity was hovered, the second was picked and moved to (5,5): the first is
\* still the hovered one and still highlighted
C23_Witness ==
    /\ lastEv = "move"
    /\ DragActive
    /\ draggedObject = 2
    /\ Dragged.position[1] = CellCentre(4) /\ Dragged.position[3] = CellCentre(4)
    /\ hoveredMesh = 1
    /\ hoveredAsset = <<"a1">>
    /\ meshes[1].emissive = "222222"
    /\ ~controls.autoRotate

\* some entity other than id has no gridPosition and its building stands on cell
UnplacedOn(cell, id) ==
    \E i \in 1..Len(meshes) :
        /\ meshes[i].assetId # id
        /\ <<meshes[i].gridX, meshes[i].gridY>> = cell
        /\ \E j \in 1..Len(assets) :
               assets[j].id = meshes[i].assetId /\ assets[j].gridPosition = NoPos

\* C24: Entities without gridPosition never block a drop. Over a cell on which only
\* such entities stand besides the dragged one, the indicator shows free, and a release
\* there queues onAssetMove with that cell: a placed and an unplaced entity can share a
\* cell.
C24_UnplacedNeverBlock ==
    [][/\ (DragActive /\ lastEv' = "up"
            /\ UnplacedOn(TargetCell, Dragged.assetId)
            /\ ~OccupiedByOther(TargetCell, Dragged.assetId)) =>
              /\ pending' = <<[id |-> Dragged.assetId, newPos |-> TargetCell]>>
              /\ meshes'[draggedObject].originalPos[1] = Dragged.position[1]
              /\ meshes'[draggedObject].originalPos[3] = Dragged.position[3]
       /\ (DragActive /\ lastEv' = "move") =>
              LET cell == <<WorldToCell(meshes'[draggedObject].position[1]),
                            WorldToCell(meshes'[draggedObject].position[3])>>
              IN (UnplacedOn(cell, Dragged.assetId)
                  /\ ~OccupiedByOther(cell, Dragged.assetId)) =>
                     highlightMesh'.color = "06b6d4"]_vars

\* the first entity was released on (2,1), where the second, which has no gridPosition,
\* stands; the move was applied and the scene rebuilt: both buildings stand on (2,1)
C24_Witness ==
    /\ lastEv = "render"
    /\ assets[1].gridPosition = <<2, 1>>
    /\ assets[2].gridPosition = NoPos
    /\ <<meshes[1].gridX, meshes[1].gridY>> = <<2, 1>>
    /\ <<meshes[2].gridX, meshes[2].gridY>> = <<2, 1>>
    /\ meshes[1].position[1] = meshes[2].position[1]
    /\ meshes[1].position[3] = meshes[2].position[3]

\* C25 as claimed: isDraggingState is true iff a drag is active in the bound pointer
\* handlers, in every state, an effect re-run caused by a new assets prop during a drag
\* included.
C25_FlagFollowsDrag == isDraggingState = DragActive

\* C26 as claimed: in every state without a drag, every entity stands on the (x, z) of
\* its anchor originalPos and none carries the white picked highlight.
C26_IdleAtAnchors ==
    ~DragActive =>
        \A i \in 1..Len(meshes) :
            /\ meshes[i].position[1] = meshes[i].originalPos[1]
            /\ meshes[i].position[3] = meshes[i].originalPos[3]
            /\ meshes[i].emissive # "ffffff"

\* C27 as claimed: a release that commits leaves the entity's position (x, y, z) equal
\* to its updated anchor, so it is back at its resting height.
C27_CommitRestsOnAnchor ==
    [][(DragActive /\ lastEv' = "up" /\ pending' # <<>>) =>
          meshes'[draggedObject].position = meshes'[draggedObject].originalPos]_vars

\* C28 as claimed: the drop indicator is visible iff a drag is active, and when visible
\* it lies on the centre of the cell the dragged entity stands on and is red iff another
\* entity has that cell as gridPosition, right after pointer-down included.
C28_IndicatorFollowsDrag ==
    /\ highlightMesh.visible = DragActive
    /\ highlightMesh.visible =>
          /\ highlightMesh.x = CentreOfCell(TargetCell[1])
          /\ highlightMesh.z = CentreOfCell(TargetCell[2])
          /\ highlightMesh.color =
                 IF OccupiedByOther(TargetCell, Dragged.assetId) THEN "ef4444"
                 ELSE "06b6d4"

\* C29: Feedback and decision agree. When a pointer-up follows a pointer-move of the
\* same drag with the entity list unchanged, the cell computed at pointer-up from the
\* entity's position is the cell that pointer-move snapped to, the release commits, with
\* that cell, iff the indicator showed free, and reverts iff it showed occupied.
C29_FeedbackAgreesWithDecision ==
    [][(DragActive /\ lastEv = "move" /\ lastEv' = "up") =>
          LET snapped == <<WorldToCell(highlightMesh.x), WorldToCell(highlightMesh.z)>>
          IN /\ highlightMesh.x = Dragged.position[1]
             /\ highlightMesh.z = Dragged.position[3]
             /\ <<UpCell(Dragged.position[1]), UpCell(Dragged.position[3])>> = snapped
             /\ highlightMesh.color \in {"06b6d4", "ef4444"}
             /\ (highlightMesh.color = "06b6d4") =
                    (pending' = <<[id |-> Dragged.assetId, newPos |-> snapped]>>)
             /\ (highlightMesh.color = "ef4444") =
                    (/\ pending' = <<>>
                     /\ meshes'[draggedObject].position = Dragged.originalPos)]_vars

\* the second entity was moved over (N, 1) with the pointer beyond the right edge,
\* shown free, and released: onAssetMove("a2", (N, 1)) is pending
C29_Witness ==
    /\ lastEv = "up"
    /\ planeIntersectPoint[1] >= Half
    /\ highlightMesh.x = CentreOfCell(GRID_SIZE) /\ highlightMesh.z = CentreOfCell(1)
    /\ highlightMesh.color = "06b6d4"
    /\ assets[1].gridPosition = <<1, 1>>
    /\ pending = <<[id |-> "a2", newPos |-> <<GRID_SIZE, 1>>]>>

====
